---- MODULE Spec2Model ----
(***************************************************************************)
(* heart_all.py: page through a playlist (get_saveable_tracks), then save  *)
(* every queued track that is not yet in the user's library (save_tracks), *)
(* and report a summary (main).                                            *)
(*                                                                         *)
(* The remote service is the environment: its playlist pages, the saved    *)
(* library, and for every remote call the choice between answering and     *)
(* raising SpotifyException.  Strings that the claims inspect are          *)
(* sequences of one-character strings.  Track names and artists (the       *)
(* info appendix of a log line) are not modelled.                          *)
(***************************************************************************)
EXTENDS Integers, Sequences, FiniteSets, TLC

\* ------------------------------------------------------------------ bounds
\* Short playlists: every sequence of item kinds up to this length.
MaxItems == 2
\* Page sizes (the remote "limit") tried for short playlists.
MaxLimit == 2
\* Long playlists: this many items, so that the total has two digits.
LongItems == 10
\* Page size of the long playlists.
LongLimit == 4
\* Long playlists queue either every item or at most this many.
LongFew == 3

\* ------------------------------------------------------------- data model
\* Python's None, for a track identifier.
None == "<None>"

\* Identifiers a track object can carry ("" is a string, not None).
TrackIds == {"", "a", "b"}

\* item.get("track") is None: the item has no track object.
NullTrackItem == [track_is_none |-> TRUE, id |-> None]

\* A page item with a track object whose "id" is id (None when it has none).
TrackItem(id) == [track_is_none |-> FALSE, id |-> id]

ItemKinds == {NullTrackItem, TrackItem(None)} \cup {TrackItem(t) : t \in TrackIds}

VARIABLES
    pages,          \* the remote playlist: a non-empty sequence of pages
    library0,       \* the saved library before the run
    library,        \* the saved library (set of identifiers)
    pc,             \* position of the program
    run,            \* 1: the run of main; 2: a second call of save_tracks
    page_no,        \* index in pages of the page held by `items`
    tracks,         \* get_saveable_tracks: tracks
    track_count,    \* get_saveable_tracks: track_count
    queued_tracks,  \* get_saveable_tracks: queued_tracks
    i,              \* save_tracks: number of tracks iterated so far
    tracks_saved,   \* save_tracks: tracks_saved
    error_count,    \* save_tracks: error_count
    first_errors,   \* error_count returned by the first save_tracks call
    calls,          \* remote calls issued by the current call, in order
    log             \* log lines written by the current call, in order

vars == <<pages, library0, library, pc, run, page_no, tracks, track_count,
          queued_tracks, i, tracks_saved, error_count, first_errors, calls, log>>

\* ---------------------------------------------------------------- strings
DigitChars == <<"0", "1", "2", "3", "4", "5", "6", "7", "8", "9">>

RECURSIVE str(_)
\* Python str(n) for n >= 0.
str(n) == IF n < 10 THEN <<DigitChars[n + 1]>>
          ELSE str(n \div 10) \o <<DigitChars[(n % 10) + 1]>>

RECURSIVE rjust(_, _)
\* Python s.rjust(width): pad with spaces on the left up to width.
rjust(s, width) == IF Len(s) >= width THEN s ELSE rjust(<<" ">> \o s, width)

get_formatted_track_number(queued, count) ==
    rjust(str(queued + 1), Len(str(count))) \o <<"/">> \o str(count)

\* ---------------------------------------------------- the remote playlist
Min(a, b) == IF a < b THEN a ELSE b

\* The pages the remote serves for a playlist of these items with this page
\* size: every page full except the last; an empty playlist has one empty page.
Paginate(its, limit) ==
    IF its = <<>> THEN << <<>> >>
    ELSE [k \in 1..((Len(its) + limit - 1) \div limit) |->
             SubSeq(its, (k - 1) * limit + 1, Min(k * limit, Len(its)))]

SeqsUpTo(S, n) == UNION {[1..m -> S] : m \in 0..n}

ShortPlaylists == {Paginate(s, l) : s \in SeqsUpTo(ItemKinds, MaxItems), l \in 1..MaxLimit}

\* k items without a track object, then tracks "a".
LongList(k) == [j \in 1..LongItems |-> IF j <= k THEN NullTrackItem ELSE TrackItem("a")]

LongPlaylists ==
    {Paginate(LongList(k), LongLimit) : k \in {0} \cup ((LongItems - LongFew)..LongItems)}

RECURSIVE SumLen(_)
SumLen(ps) == IF ps = <<>> THEN 0 ELSE Len(Head(ps)) + SumLen(Tail(ps))

\* items["total"]: the playlist's item count, reported with every page.
total(ps) == SumLen(ps)

\* Mutant of has_next: the cursor of the page before the last is taken for empty.
has_next_skips_last(ps, n) == n + 1 < Len(ps)

\* items["next"] of page number n is set: a further page exists.
has_next(ps, n) == n < Len(ps)

\* ------------------------------------------------------- calls and log lines
Call(op, id, n, result) == [op |-> op, id |-> id, n |-> n, result |-> result]

Line(level, kind, num, id) == [level |-> level, kind |-> kind, num |-> num, id |-> id]

\* --------------------------------------------------- get_saveable_tracks
\* Mutant of accepts: the identifier is tested for truth, not against None.
accepts_truthy(item) == ~(item.track_is_none \/ item.id \in {None, ""})

\* The negation of the `continue` condition of the item loop.
accepts(item) == ~(item.track_is_none \/ item.id = None)

\* One iteration of `for item in items["items"]`; st is (tracks, queued_tracks,
\* log) and count is track_count.
queue_item(item, st, count) ==
    IF ~accepts(item) THEN st
    ELSE [tracks |-> Append(st.tracks, [id |-> item.id]),
          queued_tracks |-> st.queued_tracks + 1,
          log |-> Append(st.log,
                         Line("INFO", "Queued",
                              get_formatted_track_number(st.queued_tracks, count),
                              item.id))]

RECURSIVE for_items(_, _, _)
\* The whole `for item in items["items"]` loop over one page.
for_items(its, st, count) ==
    IF its = <<>> THEN st
    ELSE for_items(Tail(its), queue_item(Head(its), st, count), count)

ReaderState == [tracks |-> tracks, queued_tracks |-> queued_tracks, log |-> log]

\* ------------------------------------------------------------------ Init
Init ==
    /\ \/ pages \in ShortPlaylists /\ library0 \in SUBSET {"a", "b"}
       \/ pages \in LongPlaylists /\ library0 \in SUBSET {"a"}
    /\ library = library0
    /\ pc = "main"
    /\ run = 1
    /\ page_no = 0
    /\ tracks = <<>>
    /\ track_count = 0
    /\ queued_tracks = 0
    /\ i = 0
    /\ tracks_saved = 0
    /\ error_count = 0
    /\ first_errors = 0
    /\ calls = <<>>
    /\ log = <<>>

\* ------------------------------------------------------------------ main
\* main: playlist_items(playlist_id) answers; get_saveable_tracks is entered
\* with the first page.
PlaylistItemsOk ==
    /\ pc = "main"
    /\ calls' = Append(calls, Call("playlist_items", None, 1, "ok"))
    /\ page_no' = 1
    /\ tracks' = <<>>
    /\ track_count' = total(pages)
    /\ queued_tracks' = 0
    /\ pc' = "reader"
    /\ UNCHANGED <<pages, library0, library, run, i, tracks_saved, error_count,
                   first_errors, log>>

\* Mutant of PlaylistItemsRaises: the except clause lacks its `return`.
PlaylistItemsRaisesNoReturn ==
    /\ pc = "main"
    /\ calls' = Append(calls, Call("playlist_items", None, 1, "raise"))
    /\ log' = Append(log, Line("ERROR", "PlaylistInvalid", <<>>, None))
    /\ page_no' = 1
    /\ track_count' = total(pages)
    /\ pc' = "reader"
    /\ UNCHANGED <<pages, library0, library, run, tracks, queued_tracks, i,
                   tracks_saved, error_count, first_errors>>

\* main: playlist_items raises SpotifyException: log the error and return.
PlaylistItemsRaises ==
    /\ pc = "main"
    /\ calls' = Append(calls, Call("playlist_items", None, 1, "raise"))
    /\ log' = Append(log, Line("ERROR", "PlaylistInvalid", <<>>, None))
    /\ pc' = "returned"
    /\ UNCHANGED <<pages, library0, library, run, page_no, tracks, track_count,
                   queued_tracks, i, tracks_saved, error_count, first_errors>>

\* One pass of `while items`: the item loop over the current page.
ReadPage == for_items(pages[page_no], ReaderState, track_count)

\* The last page: `if not items["next"]: break`, the function returns and
\* main enters save_tracks.
ReaderLastPage ==
    /\ pc = "reader"
    /\ ~has_next(pages, page_no)
    /\ tracks' = ReadPage.tracks
    /\ queued_tracks' = ReadPage.queued_tracks
    /\ log' = ReadPage.log
    /\ i' = 0
    /\ tracks_saved' = 0
    /\ error_count' = 0
    /\ pc' = "save_tracks"
    /\ UNCHANGED <<pages, library0, library, run, page_no, track_count,
                   first_errors, calls>>

\* A page with a next cursor: spotipy_client.next(items) answers.
ReaderNextOk ==
    /\ pc = "reader"
    /\ has_next(pages, page_no)
    /\ tracks' = ReadPage.tracks
    /\ queued_tracks' = ReadPage.queued_tracks
    /\ log' = ReadPage.log
    /\ calls' = Append(calls, Call("next", None, page_no + 1, "ok"))
    /\ page_no' = page_no + 1
    /\ UNCHANGED <<pages, library0, library, pc, run, track_count, i,
                   tracks_saved, error_count, first_errors>>

\* A page with a next cursor: spotipy_client.next(items) raises.  Nothing
\* catches the exception: it leaves get_saveable_tracks and main, and the
\* excepthook logs it.
ReaderNextRaises ==
    /\ pc = "reader"
    /\ has_next(pages, page_no)
    /\ tracks' = ReadPage.tracks
    /\ queued_tracks' = ReadPage.queued_tracks
    /\ calls' = Append(calls, Call("next", None, page_no + 1, "raise"))
    /\ log' = Append(ReadPage.log, Line("ERROR", "Uncaught", <<>>, None))
    /\ pc' = "uncaught"
    /\ UNCHANGED <<pages, library0, library, run, page_no, track_count, i,
                   tracks_saved, error_count, first_errors>>

\* ------------------------------------------------------------ save_tracks
\* Mutant of tracks_len: the synchronizer numbers with the reader's total.
first_page_total(ts) == track_count

\* len(tracks["tracks"]): the count the synchronizer numbers its lines with.
tracks_len(ts) == Len(ts)

\* Mutant of saved_tracks_contains: the test of the answer is inverted.
contains_inverted(lib, id) == id \notin lib

\* The answer of current_user_saved_tracks_contains([track_id])[0].
saved_tracks_contains(lib, id) == id \in lib

\* The library after current_user_saved_tracks_add([track_id]).
saved_tracks_add(lib, id) == lib \cup {id}

\* The loop has a track left: the one at 0-based index i.
InLoop == pc = "save_tracks" /\ i < Len(tracks)

\* Mutant of track_id: the identifier is not updated per iteration.
track_id_stale == tracks[1]["id"]

track_id == tracks[i + 1]["id"]

formatted_track_number == get_formatted_track_number(i, tracks_len(tracks))

\* Mutant of ContainsRaises: the try statement encloses the loop, so the
\* first error ends it.
ContainsRaisesAborts ==
    /\ pc = "save_tracks" /\ i < Len(tracks)
    /\ calls' = Append(calls, Call("contains", tracks[i + 1]["id"], i + 1, "raise"))
    /\ log' = Append(log, Line("ERROR", "ErrorSaving", <<>>, tracks[i + 1]["id"]))
    /\ error_count' = error_count + 1
    /\ i' = Len(tracks)
    /\ UNCHANGED <<pages, library0, library, pc, run, page_no, tracks,
                   track_count, queued_tracks, tracks_saved, first_errors>>

\* The presence check raises SpotifyException: the except clause logs the
\* error and counts it; the loop goes on.
ContainsRaises ==
    /\ InLoop
    /\ calls' = Append(calls, Call("contains", track_id, i + 1, "raise"))
    /\ log' = Append(log, Line("ERROR", "ErrorSaving", <<>>, track_id))
    /\ error_count' = error_count + 1
    /\ i' = i + 1
    /\ UNCHANGED <<pages, library0, library, pc, run, page_no, tracks,
                   track_count, queued_tracks, tracks_saved, first_errors>>

\* Mutant of TrackAlreadySaved: the `continue` is missing and the track is
\* saved again.
TrackAlreadySavedNoContinue ==
    /\ InLoop
    /\ saved_tracks_contains(library, track_id)
    /\ calls' = calls \o <<Call("contains", track_id, i + 1, "present"),
                          Call("add", track_id, i + 1, "ok")>>
    /\ log' = log \o <<Line("INFO", "AlreadySaved", formatted_track_number, track_id),
                        Line("INFO", "Saved", formatted_track_number, track_id)>>
    /\ tracks_saved' = tracks_saved + 1
    /\ i' = i + 1
    /\ UNCHANGED <<pages, library0, library, pc, run, page_no, tracks,
                   track_count, queued_tracks, error_count, first_errors>>

\* The presence check answers true: log "already saved" and `continue`.
TrackAlreadySaved ==
    /\ InLoop
    /\ saved_tracks_contains(library, track_id)
    /\ calls' = Append(calls, Call("contains", track_id, i + 1, "present"))
    /\ log' = Append(log, Line("INFO", "AlreadySaved", formatted_track_number, track_id))
    /\ i' = i + 1
    /\ UNCHANGED <<pages, library0, library, pc, run, page_no, tracks,
                   track_count, queued_tracks, tracks_saved, error_count,
                   first_errors>>

\* The presence check answers false and the save call succeeds.
TrackSaved ==
    /\ InLoop
    /\ ~saved_tracks_contains(library, track_id)
    /\ calls' = calls \o <<Call("contains", track_id, i + 1, "absent"),
                          Call("add", track_id, i + 1, "ok")>>
    /\ library' = saved_tracks_add(library, track_id)
    /\ log' = Append(log, Line("INFO", "Saved", formatted_track_number, track_id))
    /\ tracks_saved' = tracks_saved + 1
    /\ i' = i + 1
    /\ UNCHANGED <<pages, library0, pc, run, page_no, tracks, track_count,
                   queued_tracks, error_count, first_errors>>

\* Mutant of AddRaises: the except clause does not count the error.
AddRaisesUncounted ==
    /\ InLoop
    /\ ~saved_tracks_contains(library, track_id)
    /\ calls' = calls \o <<Call("contains", track_id, i + 1, "absent"),
                          Call("add", track_id, i + 1, "raise")>>
    /\ log' = Append(log, Line("ERROR", "ErrorSaving", <<>>, track_id))
    /\ i' = i + 1
    /\ UNCHANGED <<pages, library0, library, pc, run, page_no, tracks,
                   track_count, queued_tracks, tracks_saved, error_count,
                   first_errors>>

\* The presence check answers false and the save call raises SpotifyException.
AddRaises ==
    /\ InLoop
    /\ ~saved_tracks_contains(library, track_id)
    /\ calls' = calls \o <<Call("contains", track_id, i + 1, "absent"),
                          Call("add", track_id, i + 1, "raise")>>
    /\ log' = Append(log, Line("ERROR", "ErrorSaving", <<>>, track_id))
    /\ error_count' = error_count + 1
    /\ i' = i + 1
    /\ UNCHANGED <<pages, library0, library, pc, run, page_no, tracks,
                   track_count, queued_tracks, tracks_saved, first_errors>>

\* " Forcibly saved {tracks_saved}/{queued_tracks} tracks"
appendix == str(tracks_saved) \o <<"/">> \o str(queued_tracks)

\* save_tracks returns to main, which logs the summary.
MainSummary ==
    /\ pc = "save_tracks"
    /\ run = 1
    /\ i = Len(tracks)
    /\ log' = Append(log,
                     Line("INFO",
                          IF error_count # 0 THEN "FinishedWithErrors"
                          ELSE "FinishedWithoutErrors",
                          appendix, None))
    /\ pc' = "done"
    /\ UNCHANGED <<pages, library0, library, run, page_no, tracks, track_count,
                   queued_tracks, i, tracks_saved, error_count, first_errors,
                   calls>>

\* save_tracks is called a second time with the same tracks: its locals start
\* from zero; calls and log restart to hold those of this call alone.
SaveTracksAgain ==
    /\ pc = "done"
    /\ run = 1
    /\ run' = 2
    /\ first_errors' = error_count
    /\ i' = 0
    /\ tracks_saved' = 0
    /\ error_count' = 0
    /\ calls' = <<>>
    /\ log' = <<>>
    /\ pc' = "save_tracks"
    /\ UNCHANGED <<pages, library0, library, page_no, tracks, track_count,
                   queued_tracks>>

\* The second call of save_tracks returns.
SaveTracksReturns ==
    /\ pc = "save_tracks"
    /\ run = 2
    /\ i = Len(tracks)
    /\ pc' = "done"
    /\ UNCHANGED <<pages, library0, library, run, page_no, tracks, track_count,
                   queued_tracks, i, tracks_saved, error_count, first_errors,
                   calls, log>>

Next ==
    \/ PlaylistItemsOk
    \/ PlaylistItemsRaises
    \/ ReaderLastPage
    \/ ReaderNextOk
    \/ ReaderNextRaises
    \/ ContainsRaises
    \/ TrackAlreadySaved
    \/ TrackSaved
    \/ AddRaises
    \/ MainSummary
    \/ SaveTracksAgain
    \/ SaveTracksReturns

Spec == Init /\ [][Next]_vars

\* The program is sequential and every remote call answers or raises: a step
\* that can be taken is taken.
FairSpec == Spec /\ WF_vars(Next)

\* ----------------------------------------------- vocabulary of the claims
Range(f) == {f[x] : x \in DOMAIN f}

RECURSIVE Flatten(_)
\* Every item of the playlist, in page order then item order.
Flatten(ps) == IF ps = <<>> THEN <<>> ELSE Head(ps) \o Flatten(Tail(ps))

AllItems == Flatten(pages)

\* The calls of one operation, and its calls with one result.
CallsOf(op) == SelectSeq(calls, LAMBDA c : c.op = op)

CallsWith(op, result) == SelectSeq(calls, LAMBDA c : c.op = op /\ c.result = result)

NoCallRaised == \A c \in Range(calls) : c.result # "raise"

\* Tracks whose presence check answered true.
AlreadySaved == Len(CallsWith("contains", "present"))

\* get_saveable_tracks has returned.
ReaderReturned == pc \in {"save_tracks", "done"}

\* The calls of save_tracks, and the lines it wrote, one per track handled.
SyncCalls == SelectSeq(calls, LAMBDA c : c.op \in {"contains", "add"})

SyncLines == SelectSeq(log, LAMBDA l : l.kind \in {"Saved", "AlreadySaved", "ErrorSaving"})

QueuedLines == SelectSeq(log, LAMBDA l : l.kind = "Queued")

SummaryLines == SelectSeq(log, LAMBDA l : l.kind \in {"FinishedWithErrors", "FinishedWithoutErrors"})

\* ------------------------------------------------------------------- C1
\* C1: after a full run in which no remote call raised, every playlist item
\* whose track has an identifier is in the saved library.
C1_EveryTrackSaved ==
    (pc = "done" /\ NoCallRaised) =>
        \A k \in 1..Len(AllItems) :
            (~AllItems[k].track_is_none /\ AllItems[k].id # None)
                => AllItems[k].id \in library

\* A full run without errors over two pages that saved a track and found
\* another already saved.
C1_Witness ==
    /\ pc = "done" /\ run = 1 /\ NoCallRaised
    /\ Len(pages) >= 2
    /\ tracks_saved >= 1
    /\ AlreadySaved >= 1
    /\ library # library0

\* ------------------------------------------------------------------- C2
\* C2: after a full run, whatever remote calls raised,
\* saved + alreadySaved + failed = queued.
C2_CountersAddUp ==
    pc = "done" => tracks_saved + AlreadySaved + error_count = queued_tracks

\* A full run of main with a saved, an already saved and a failed track, and
\* items that were not queued.
C2_Witness ==
    /\ pc = "done" /\ run = 1
    /\ tracks_saved >= 1 /\ AlreadySaved >= 1 /\ error_count >= 1
    /\ queued_tracks < track_count

ItemsWithTrack == SelectSeq(AllItems, LAMBDA it : ~it.track_is_none)

ItemsWithId == SelectSeq(AllItems, LAMBDA it : ~it.track_is_none /\ it.id # None)

\* The next-page fetches so far are those of pages 2.., each once, in order.
EachPageFetchedOnce ==
    /\ CallsOf("next") = CallsWith("next", "ok")
    /\ Len(CallsOf("next")) = Len(pages) - 1
    /\ \A k \in 1..Len(CallsOf("next")) : CallsOf("next")[k].n = k + 1

\* C4 as stated: when the reader has returned, the sequence it produced and
\* queued_tracks count the items whose track is non-null, and every page
\* after the first was fetched exactly once.
C4_LengthIsNonNullTracks ==
    (ReaderReturned /\ run = 1) =>
        /\ Len(tracks) = Len(ItemsWithTrack)
        /\ queued_tracks = Len(ItemsWithTrack)
        /\ EachPageFetchedOnce

\* C4 amended: the reader terminates, and when it has returned the sequence
\* it produced is made, in page order then item order, of the items whose
\* track is non-null and has a non-null identifier; queued_tracks is its
\* length, and every page after the first was fetched exactly once.
C4_ReaderTerminatesWithQueuedItems ==
    /\ <>(pc \notin {"main", "reader"})
    /\ []((ReaderReturned /\ run = 1) =>
            /\ tracks = [k \in 1..Len(ItemsWithId) |-> [id |-> ItemsWithId[k].id]]
            /\ queued_tracks = Len(ItemsWithId)
            /\ EachPageFetchedOnce)

\* The reader returned from a chain of pages holding a track object without
\* identifier and at least one track it queued.
C4_Witness ==
    /\ ReaderReturned /\ run = 1
    /\ Len(pages) >= 2
    /\ Len(ItemsWithId) < Len(ItemsWithTrack)
    /\ Len(tracks) >= 1

\* ------------------------------------------------------------------- C5
\* The step is a presence check or a save call of save_tracks that raises.
TrackCallRaises ==
    /\ Len(calls') > Len(calls)
    /\ calls'[Len(calls')].op \in {"contains", "add"}
    /\ calls'[Len(calls')].result = "raise"

\* C5: a track whose presence check or save call raises adds exactly one to
\* the error count, leaves the saved count unchanged and the loop goes on to
\* the next track; in the end every track had its presence check issued.
C5_FailureNeverAborts ==
    /\ [][TrackCallRaises =>
            /\ error_count' = error_count + 1
            /\ tracks_saved' = tracks_saved
            /\ i' = i + 1
            /\ pc' = "save_tracks"]_vars
    /\ [](pc = "done" =>
            \A k \in 1..Len(tracks) :
                \E c \in Range(calls) : c.op = "contains" /\ c.n = k)

\* One failing presence check among at least five tracks, all of them checked.
C5_Witness ==
    /\ pc = "done"
    /\ Len(tracks) >= 5
    /\ error_count = 1
    /\ Len(CallsWith("contains", "raise")) = 1
    /\ calls[1].result = "raise"
    /\ Len(CallsOf("contains")) = Len(tracks)

\* ------------------------------------------------------------------- C6
\* C6: when the initial playlist fetch raised, the run has returned with that
\* one remote call issued, the library as it was, nothing queued, and one log
\* line: the error, no summary.
C6_FailedFetchAborts ==
    (calls # <<>> /\ calls[1].op = "playlist_items" /\ calls[1].result = "raise") =>
        /\ pc = "returned"
        /\ Len(calls) = 1
        /\ library = library0
        /\ tracks = <<>>
        /\ Len(log) = 1
        /\ log[1].level = "ERROR" /\ log[1].kind = "PlaylistInvalid"
        /\ SummaryLines = <<>>

\* The initial fetch failed for a playlist that holds a track the library
\* lacks.
C6_Witness ==
    /\ pc = "returned"
    /\ \E k \in 1..Len(ItemsWithId) : ItemsWithId[k].id \notin library

\* ------------------------------------------------------------------- C7
\* C7: once the initial playlist fetch has succeeded no remote error aborts
\* the run: the program is reading, saving, or has written its summary.
C7_OnlyFatalPath ==
    (calls # <<>> /\ calls[1].op = "playlist_items" /\ calls[1].result = "ok") =>
        /\ pc \in {"reader", "save_tracks", "done"}
        /\ (pc = "done" /\ run = 1) => Len(SummaryLines) = 1

\* ------------------------------------------------------------------- C8
\* The items of the page being read that have a track object with a
\* non-empty identifier, and those with an identifier, empty or not.
PageItems == IF pc = "reader" THEN pages[page_no] ELSE <<>>

PageItemsNonEmptyId ==
    SelectSeq(PageItems, LAMBDA it : ~it.track_is_none /\ it.id \notin {None, ""})

PageItemsWithId == SelectSeq(PageItems, LAMBDA it : ~it.track_is_none /\ it.id # None)

\* C8 as stated: reading a page queues exactly its items that have a track
\* with a non-empty identifier, and no queued track has a null or empty
\* identifier.
C8_QueuesNonEmptyIds ==
    /\ [][pc = "reader" =>
            /\ tracks' = tracks \o [k \in 1..Len(PageItemsNonEmptyId) |->
                                      [id |-> PageItemsNonEmptyId[k].id]]
            /\ queued_tracks' = queued_tracks + Len(PageItemsNonEmptyId)]_vars
    /\ [](\A k \in 1..Len(tracks) : tracks[k].id \notin {None, ""})

\* C8 amended: reading a page queues exactly its items that have a track
\* object with a non-null identifier (the empty string included), writes one
\* "Queued" line for each of them and nothing for the others, and no queued
\* track has a null identifier.
C8_QueuesNonNullIds ==
    /\ [][pc = "reader" =>
            /\ tracks' = tracks \o [k \in 1..Len(PageItemsWithId) |->
                                      [id |-> PageItemsWithId[k].id]]
            /\ queued_tracks' = queued_tracks + Len(PageItemsWithId)
            /\ SelectSeq(log', LAMBDA l : l.level = "INFO")
                 = log \o [k \in 1..Len(PageItemsWithId) |->
                             Line("INFO", "Queued", log'[Len(log) + k].num,
                                  PageItemsWithId[k].id)]]_vars
    /\ [](\A k \in 1..Len(tracks) : tracks[k].id # None)
    /\ [](run = 1 => Len(QueuedLines) = queued_tracks)

\* The reader queued a track whose identifier is the empty string and skipped
\* an item.
C8_Witness ==
    /\ ReaderReturned
    /\ \E k \in 1..Len(tracks) : tracks[k].id = ""
    /\ queued_tracks < track_count

\* ------------------------------------------------------------------- C9
\* C9: the calls of save_tracks go through the tracks in sequence order; each
\* track handled has exactly one presence check and at most one save call;
\* a save call directly follows the presence check of the same track, which
\* answered "absent".
C9_CallsOrderedNeverRetried ==
    LET sc == SyncCalls
        checks == SelectSeq(sc, LAMBDA c : c.op = "contains")
        adds == SelectSeq(sc, LAMBDA c : c.op = "add")
    IN  /\ \A j \in 1..(Len(sc) - 1) : sc[j].n <= sc[j + 1].n
        /\ \A j \in 1..Len(sc) :
              /\ sc[j].n \in 1..Len(tracks)
              /\ sc[j].id = tracks[sc[j].n].id
        /\ Len(checks) = i
        /\ \A k \in 1..Len(checks) : checks[k].n = k
        /\ \A k \in 1..(Len(adds) - 1) : adds[k].n < adds[k + 1].n
        /\ \A j \in 1..Len(sc) :
              sc[j].op = "add" =>
                  /\ j > 1
                  /\ sc[j - 1].op = "contains"
                  /\ sc[j - 1].n = sc[j].n
                  /\ sc[j - 1].result = "absent"

\* A finished call in which one track's check raised, one was found present
\* and one was absent and saved.
C9_Witness ==
    /\ pc = "done"
    /\ CallsWith("contains", "raise") # <<>>
    /\ CallsWith("contains", "present") # <<>>
    /\ CallsWith("add", "ok") # <<>>

\* ------------------------------------------------------------------ C10
\* Reading a formatted track number back: the text before and after "/".
SlashAt(s) == CHOOSE k \in 1..Len(s) : s[k] = "/"

BeforeSlash(s) == SubSeq(s, 1, SlashAt(s) - 1)

AfterSlash(s) == SubSeq(s, SlashAt(s) + 1, Len(s))

DigitValue(c) == CHOOSE d \in 0..9 : DigitChars[d + 1] = c

IsDigits(s) == s # <<>> /\ \A k \in 1..Len(s) : s[k] \in Range(DigitChars)

RECURSIVE ParseNat(_)
ParseNat(s) == IF s = <<>> THEN 0
               ELSE 10 * ParseNat(SubSeq(s, 1, Len(s) - 1)) + DigitValue(s[Len(s)])

\* The number of decimal digits of n (n < 1000).
NumDigits(n) == IF n < 10 THEN 1 ELSE IF n < 100 THEN 2 ELSE 3

Max(a, b) == IF a > b THEN a ELSE b

\* s is the decimal form of position, without leading zeros, right-aligned
\* with spaces in a field as wide as the decimal form of count.
RightAligned(s, position, count) ==
    /\ Len(s) = Max(NumDigits(position), NumDigits(count))
    /\ \E pad \in 0..(Len(s) - 1) :
          /\ \A k \in 1..pad : s[k] = " "
          /\ IsDigits(SubSeq(s, pad + 1, Len(s)))
          /\ Len(s) - pad = NumDigits(position)
          /\ ParseNat(SubSeq(s, pad + 1, Len(s))) = position

\* Line j of SyncLines is the line of track j, whatever its kind.
\* C10 as stated: every "Saved" and "already saved" line carries the 1-based
\* position of its track right-aligned to the width of the total reported by
\* the first page.
C10_AlignedToFirstPageTotal ==
    LET sl == SyncLines
    IN  \A j \in 1..Len(sl) :
            sl[j].kind \in {"Saved", "AlreadySaved"}
                => RightAligned(BeforeSlash(sl[j].num), j, track_count)

\* C10 amended: every "Saved" and "already saved" line carries the 1-based
\* position of its track right-aligned to the width of the number of queued
\* tracks, followed by "/" and that number.
C10_AlignedToQueuedCount ==
    LET sl == SyncLines
    IN  \A j \in 1..Len(sl) :
            sl[j].kind \in {"Saved", "AlreadySaved"} =>
                /\ RightAligned(BeforeSlash(sl[j].num), j, Len(tracks))
                /\ IsDigits(AfterSlash(sl[j].num))
                /\ ParseNat(AfterSlash(sl[j].num)) = Len(tracks)

\* A "Saved" line written for a playlist whose first page reports a two-digit
\* total of which fewer than ten items were queued.
C10_Witness ==
    /\ pc = "done"
    /\ track_count >= 10
    /\ Len(tracks) \in 1..9
    /\ \E j \in 1..Len(SyncLines) : SyncLines[j].kind = "Saved"

====
